---- MODULE Spec2Model ----
(***************************************************************************)
(* Model of the Guppies betting game: src/guppies.rs (currencies, the four *)
(* GuppiesVariant implementations, run_game and main) and                  *)
(* src/guppies_basic.rs (the simplified game).                             *)
(*                                                                         *)
(* Manyguppies::generate_new_random and main move a Box out of a Vec by    *)
(* index; the model reads that as taking the indexed variant as the        *)
(* current one, which is what the surrounding comments describe.           *)
(*                                                                         *)
(* i32 and usize arithmetic depends on the build profile: with overflow    *)
(* checks (debug) an overflow panics, without them (release) it wraps.     *)
(* The profile is chosen once, in Init.                                    *)
(***************************************************************************)
EXTENDS Integers, Sequences, FiniteSets, TLC

VARIABLES
    pc,               \* position of the process
    overflow_checks,  \* build profile: TRUE = overflow panics, FALSE = wraps
    currency,         \* the Currency chosen in main
    variant,          \* the GuppiesVariant object handed to run_game
    money,            \* run_game: money
    bet,              \* run_game: bet
    guess,            \* run_game: guess
    line,             \* the last line read from stdin
    out,              \* the lines printed by the last step
    abort,            \* the panic that ended the process, "" if none
    shown_first,      \* what tell_random(FirstGeneratedVal) printed this round
    result,           \* run_game: result, "" before check_guess returns
    rounds,           \* number of rounds started
    player,           \* how the player bets: "any" or "all_in"
    random_source,    \* "sampled", or "exhaustive" for calls of single methods
    calls,            \* the variant methods run_game has called this round
    basic             \* the simplified game of guppies_basic.rs, run alongside

vars == <<pc, overflow_checks, currency, variant, money, bet, guess, line,
          out, abort, shown_first, result, rounds, player, random_source,
          calls, basic>>

----------------------------------------------------------------------------
(* Bounds of the model *)

\* rounds a player who bets anything may start
MaxRounds == 2
\* rounds a player who always bets the whole balance may start
MaxAllInRounds == 5
\* how many of the lowest values of a random range the random source may
\* return, besides the highest one
MaxDraw == 1

----------------------------------------------------------------------------
(* i32 / usize arithmetic *)

I32Max == 2147483647
I32Min == (-I32Max) - 1

\* a + b leaves the i32 range
AddOverflows(a, b) ==
    \/ b > 0 /\ a > I32Max - b
    \/ b < 0 /\ a < I32Min - b

\* a + b modulo 2^32, as a release build computes it
WrappingAdd(a, b) ==
    IF b > 0 /\ a > I32Max - b
    THEN (a - I32Max - 1) + (b - I32Max - 1)
    ELSE IF b < 0 /\ a < I32Min - b
         THEN (a + I32Max + 1) + (b + I32Max + 1)
         ELSE a + b

\* a - b leaves the i32 range
SubOverflows(a, b) ==
    \/ b < 0 /\ a > I32Max + b
    \/ b > 0 /\ a < I32Min + b

\* a - b modulo 2^32
WrappingSub(a, b) ==
    IF b < 0 /\ a > I32Max + b
    THEN (a - I32Max - 1) - (b + I32Max + 1)
    ELSE IF b > 0 /\ a < I32Min + b
         THEN (a + I32Max + 1) - (b - I32Max - 1)
         ELSE a - b

\* usize a - b: the difference wraps around the usize modulus when a < b.
\* The wrapped value is low + modulus, kept as the pair (wrapped, low).
UsizeSub(a, b) == [wrapped |-> a < b, low |-> a - b]

\* order of two usize differences
UsizeLess(x, y) ==
    IF x.wrapped = y.wrapped THEN x.low < y.low ELSE y.wrapped

----------------------------------------------------------------------------
(* Currency *)

DollarStart == 100
TurkishLiraStart == 100000000
HbuckStart == 32199

starting_amount(c) ==
    CASE c = "Dollar" -> DollarStart
      [] c = "TurkishLira" -> TurkishLiraStart
      [] c = "Hbuck" -> HbuckStart

----------------------------------------------------------------------------
(* Random source and text helpers *)

\* rand::thread_rng().gen_range(lo..hi): a value of lo..hi-1; a sampled
\* source returns the lowest MaxDraw values and the highest one, an
\* exhaustive source every value.
gen_range(lo, hi) ==
    {x \in lo..(hi - 1) :
        random_source = "exhaustive" \/ x < lo + MaxDraw \/ x = hi - 1}

\* gen_range(0..len) for the index of a variant: every index
gen_index(len) == 0..(len - 1)

\* a comparison of the line as typed, without lowering its case
KeepCase(s) == s

\* str::to_lowercase on the lines the player types
to_lowercase(s) ==
    CASE s = "H" -> "h"
      [] s = "L" -> "l"
      [] s = "S" -> "s"
      [] s = "O" -> "o"
      [] s = "E" -> "e"
      [] s = "C" -> "c"
      [] s = "F" -> "f"
      [] s = "Q" -> "q"
      [] OTHER -> s

BoolStr(b) == IF b THEN "true" ELSE "false"

----------------------------------------------------------------------------
(* GuppiesVariant implementations *)

PlainLow == 1
PlainHigh == 11
OddEvenLow == 1
OddEvenHigh == 101

colors == <<"Violet", "Indigo", "Blue", "Green", "Yellow", "Orange", "Red">>

\* colors.iter().position(|&r| r == c): 0-based index, -1 for None
position(c) ==
    IF \E i \in 1..Len(colors) : colors[i] = c
    THEN (CHOOSE i \in 1..Len(colors) : colors[i] = c) - 1
    ELSE -1

PlainGuppies(a, b) == [kind |-> "PlainGuppies", value_one |-> a, value_two |-> b]
RainbowGuppies(a, b) == [kind |-> "RainbowGuppies", color_one |-> a, color_two |-> b]
OddOrEvenGuppies(a, b) == [kind |-> "OddOrEvenGuppies", num_one |-> a, num_two |-> b]
Manyguppies(vs, cur, idx) ==
    [kind |-> "Manyguppies", guppies_variants |-> vs, current_variant |-> cur,
     variant_index |-> idx]

\* PlainGuppies::generate_new_random: both values are drawn afresh
PlainGenerate(v) ==
    {[v EXCEPT !.value_one = a, !.value_two = b] :
        a \in gen_range(PlainLow, PlainHigh), b \in gen_range(PlainLow, PlainHigh)}

\* OddOrEvenGuppies::generate_new_random: both values are drawn afresh
OddOrEvenGenerate(v) ==
    {[v EXCEPT !.num_one = a, !.num_two = b] :
        a \in gen_range(OddEvenLow, OddEvenHigh),
        b \in gen_range(OddEvenLow, OddEvenHigh)}

\* RainbowGuppies::generate_new_random: one index, stored in both colours
RainbowGenerate(v) ==
    {[v EXCEPT !.color_one = colors[index + 1], !.color_two = colors[index + 1]] :
        index \in gen_range(0, Len(colors))}

\* generate_new_random of the three simple variants
SimpleGenerate(v) ==
    CASE v.kind = "PlainGuppies" -> PlainGenerate(v)
      [] v.kind = "OddOrEvenGuppies" -> OddOrEvenGenerate(v)
      [] v.kind = "RainbowGuppies" -> RainbowGenerate(v)

\* the sequence s without its k-th element
Without(s, k) == [i \in 1..(Len(s) - 1) |-> IF i < k THEN s[i] ELSE s[i + 1]]

\* a generate that takes the drawn variant out of the stored variants
ManyGenerateRemoving(v) ==
    UNION {{[v EXCEPT !.variant_index = variant_index, !.current_variant = w,
                      !.guppies_variants = Without(@, variant_index + 1)] :
                w \in SimpleGenerate(v.guppies_variants[variant_index + 1])} :
            variant_index \in gen_index(Len(v.guppies_variants))}

\* Manyguppies::generate_new_random: draw an index, take that variant as the
\* current one, and generate on it
ManyGenerate(v) ==
    UNION {{[v EXCEPT !.variant_index = variant_index, !.current_variant = w] :
                w \in SimpleGenerate(v.guppies_variants[variant_index + 1])} :
            variant_index \in gen_index(Len(v.guppies_variants))}

\* GuppiesVariant::generate_new_random: the set of states the object may be
\* in afterwards
generate_new_random(v) ==
    IF v.kind = "Manyguppies" THEN ManyGenerate(v) ELSE SimpleGenerate(v)

\* the variant whose methods run when v's methods are called
Delegate(v) == IF v.kind = "Manyguppies" THEN v.current_variant ELSE v

\* the stored first and second value of a simple variant
FirstValue(v) ==
    CASE v.kind = "PlainGuppies" -> v.value_one
      [] v.kind = "OddOrEvenGuppies" -> v.num_one
      [] v.kind = "RainbowGuppies" -> v.color_one

SecondValue(v) ==
    CASE v.kind = "PlainGuppies" -> v.value_two
      [] v.kind = "OddOrEvenGuppies" -> v.num_two
      [] v.kind = "RainbowGuppies" -> v.color_two

\* GuppiesVariant::tell_random: the variant that prints and the value printed
tell_random(v, value) ==
    [kind |-> Delegate(v).kind,
     index |-> IF v.kind = "Manyguppies" THEN v.variant_index ELSE 0,
     which |-> value,
     value |-> IF value = "FirstGeneratedVal"
               THEN FirstValue(Delegate(v)) ELSE SecondValue(Delegate(v))]

\* the tokens each get_guess loop lets through
PlainTokens == {"h", "l", "s", "q"}
OddOrEvenTokens == {"o", "e", "s", "q"}
RainbowTokens == {"c", "f", "s", "q"}

\* GuppiesVariant::get_guess: does the loop return this (lowercased) line?
get_guess_accepts(v, g) ==
    CASE Delegate(v).kind = "PlainGuppies" -> g \in PlainTokens
      [] Delegate(v).kind = "OddOrEvenGuppies" -> g \in OddOrEvenTokens
      [] Delegate(v).kind = "RainbowGuppies" -> g \in RainbowTokens

\* a check that compares the first value against the second
PlainCheckGuessSwapped(v, g) ==
    CASE to_lowercase(g) = "h" -> BoolStr(v.value_one > v.value_two)
      [] to_lowercase(g) = "l" -> BoolStr(v.value_one < v.value_two)
      [] to_lowercase(g) = "s" -> BoolStr(v.value_two = v.value_one)
      [] OTHER -> "InvalidGuess"

\* PlainGuppies::check_guess
PlainCheckGuess(v, g) ==
    CASE to_lowercase(g) = "h" -> BoolStr(v.value_two > v.value_one)
      [] to_lowercase(g) = "l" -> BoolStr(v.value_two < v.value_one)
      [] to_lowercase(g) = "s" -> BoolStr(v.value_two = v.value_one)
      [] OTHER -> "InvalidGuess"

\* a check that takes the parity of the first number
OddOrEvenCheckGuessOnFirst(v, g) ==
    CASE to_lowercase(g) = "o" -> BoolStr(v.num_one % 2 # 0)
      [] to_lowercase(g) = "e" -> BoolStr(v.num_one % 2 = 0)
      [] to_lowercase(g) = "s" -> BoolStr(v.num_two = v.num_one)
      [] OTHER -> "InvalidGuess"

\* OddOrEvenGuppies::check_guess
OddOrEvenCheckGuess(v, g) ==
    CASE to_lowercase(g) = "o" -> BoolStr(v.num_two % 2 # 0)
      [] to_lowercase(g) = "e" -> BoolStr(v.num_two % 2 = 0)
      [] to_lowercase(g) = "s" -> BoolStr(v.num_two = v.num_one)
      [] OTHER -> "InvalidGuess"

\* RainbowGuppies::check_guess; index_one is the index of color_two and
\* index_two the index of color_one, as in the source.  The usize
\* subtractions of the matched arm panic under overflow checks.
RainbowCheckGuess(v, g, checks) ==
    LET index_one == position(v.color_two)
        index_two == position(v.color_one)
        index_green == position("Green")
        underflow == index_one < index_green \/ index_two < index_green
        left == UsizeSub(index_one, index_green)
        right == UsizeSub(index_two, index_green)
    IN  IF index_one < 0 \/ index_two < 0 \/ index_green < 0
        THEN "UnwrapNone"
        ELSE CASE to_lowercase(g) = "c" ->
                    IF checks /\ underflow THEN "UsizeSubtractOverflow"
                    ELSE BoolStr(UsizeLess(left, right))
               [] to_lowercase(g) = "f" ->
                    IF checks /\ underflow THEN "UsizeSubtractOverflow"
                    ELSE BoolStr(UsizeLess(right, left))
               [] to_lowercase(g) = "s" -> BoolStr(v.color_two = v.color_one)
               [] OTHER -> "InvalidGuess"

\* GuppiesVariant::check_guess: "true", "false", or the panic that ends it
check_guess(v, g, checks) ==
    CASE Delegate(v).kind = "PlainGuppies" -> PlainCheckGuess(Delegate(v), g)
      [] Delegate(v).kind = "OddOrEvenGuppies" -> OddOrEvenCheckGuess(Delegate(v), g)
      [] Delegate(v).kind = "RainbowGuppies" -> RainbowCheckGuess(Delegate(v), g, checks)

IsPanic(r) == r \notin {"true", "false"}

----------------------------------------------------------------------------
(* Lines the player may type *)

\* a line that parses as an i32, and lines that do not
IntLine(n) == [parsed |-> "Ok", value |-> n, text |-> "integer"]
TextLine(t) == [parsed |-> "Err", value |-> 0, text |-> t]

NotIntegerLines == {TextLine("abc")}
GuessLines == {"h", "l", "s", "o", "e", "c", "f", "q", "H", "Q", "x"}
CurrencyCodes == 0..4
VariantCodes == 0..5

\* the bets the player proposes with m in hand: a player who bets anything
\* tries the boundaries and a small bet, an all-in player the whole balance
\* or one more
BetInputs(m, p) ==
    (IF p = "any" THEN {-1, 0, 1, m} ELSE {m})
        \cup (IF m < I32Max THEN {m + 1} ELSE {})

\* the rounds the model lets the player start
RoundBudget(p) == IF p = "any" THEN MaxRounds ELSE MaxAllInRounds

NoLine == TextLine("none")
NoReveal == [kind |-> "none", index |-> 0, which |-> "none", value |-> 0]
NoVariant == [kind |-> "none"]

\* the menu codes the player types; the game that runs beside the
\* simplified game is the one with Dollar and PlainGuppies
CurrencyInputs == IF basic.pc = "off" THEN CurrencyCodes ELSE {1}
VariantInputs == IF basic.pc = "off" THEN VariantCodes ELSE {1}

\* run_game: the variant methods called when a bet is taken, when the
\* player quits, and when a guess is scored, in the order of the calls
bet_calls == <<"generate_new_random", "tell_random_first">>
quit_calls == <<"get_guess">>
\* an order of calls that tells the second value before the guess is taken
ScoreCallsTellingFirst ==
    <<"generate_new_random", "tell_random_second", "get_guess", "check_guess">>

score_calls ==
    <<"get_guess", "generate_new_random", "tell_random_second", "check_guess">>

----------------------------------------------------------------------------
(* guppies_basic.rs: the simplified game *)

BasicStartMoney == 100
BasicLow == 1
BasicHigh == 11

\* the simplified game is not run
BasicOff ==
    [pc |-> "off", money |-> 0, bet |-> 0, first |-> 0, second |-> 0,
     guess |-> "", result |-> "", out |-> <<>>, abort |-> ""]

\* guppies_basic main: the state at its first bet prompt
BasicStart ==
    [BasicOff EXCEPT !.pc = "AWAIT_BET", !.money = BasicStartMoney,
                     !.out = <<"welcome", "balance">>]

\* guppies_basic get_guess: the tokens its loop lets through
BasicTokens == {"h", "l", "s", "q"}

\* guppies_basic check_guess
BasicCheckGuess(first, second, g) ==
    CASE to_lowercase(g) = "h" -> BoolStr(second > first)
      [] to_lowercase(g) = "l" -> BoolStr(second < first)
      [] to_lowercase(g) = "s" -> BoolStr(second = first)
      [] OTHER -> "InvalidGuess"

\* guppies_basic main: what is printed after the loop
BasicFinalMessage(m) == IF m = 0 THEN "broke" ELSE "made_it_out"

\* guppies_basic main: money += bet or money -= bet and the loop test
BasicSettle(b, checks) ==
    LET overflows == IF b.result = "true" THEN AddOverflows(b.money, b.bet)
                     ELSE SubOverflows(b.money, b.bet)
        m == IF b.result = "true" THEN WrappingAdd(b.money, b.bet)
             ELSE WrappingSub(b.money, b.bet)
    IN  IF checks /\ overflows
        THEN [b EXCEPT !.pc = "ABORTED", !.abort = "I32Overflow", !.out = <<"second">>]
        ELSE IF m > 0
             THEN [b EXCEPT !.pc = "AWAIT_BET", !.money = m,
                            !.out = <<"second", b.result, "balance">>]
             ELSE [b EXCEPT !.pc = "TERMINAL", !.money = m,
                            !.out = <<"second", b.result, BasicFinalMessage(m)>>]

\* guppies_basic main: one line read at the bet prompt; first is what
\* get_random returns when the bet is taken
BasicBet(b, l, first) ==
    IF l.parsed = "Err"
    THEN [b EXCEPT !.out = <<"not_integer">>]
    ELSE IF l.value < 0 \/ l.value > b.money
         THEN [b EXCEPT !.bet = l.value, !.out = <<"invalid_bet">>]
         ELSE [b EXCEPT !.bet = l.value, !.first = first,
                        !.pc = "ROUND_IN_PROGRESS", !.out = <<"first">>]

\* guppies_basic main: one line read at the guess prompt; second is what
\* get_random returns when the guess is taken
BasicGuess(b, l, second, checks) ==
    IF to_lowercase(l.text) \notin BasicTokens
    THEN [b EXCEPT !.out = <<"invalid_guess">>]
    ELSE IF to_lowercase(l.text) = "q"
         THEN [b EXCEPT !.guess = "q", !.pc = "TERMINAL",
                        !.out = <<BasicFinalMessage(b.money)>>]
         ELSE LET r == BasicCheckGuess(b.first, second, to_lowercase(l.text))
              IN  IF IsPanic(r)
                  THEN [b EXCEPT !.pc = "ABORTED", !.abort = r]
                  ELSE BasicSettle([b EXCEPT !.guess = to_lowercase(l.text),
                                             !.second = second, !.result = r],
                                   checks)

\* the simplified game reads the line run_game reads, at the same prompt,
\* and its get_random returns the number run_game shows; it falls out of
\* step when it is at another prompt than run_game
BasicMain(b, at, l, first, second, checks) ==
    CASE b.pc = "off" -> b
      [] b.pc # at -> [b EXCEPT !.pc = "out_of_step"]
      [] b.pc = "AWAIT_BET" -> BasicBet(b, l, first)
      [] b.pc = "ROUND_IN_PROGRESS" -> BasicGuess(b, l, second, checks)
      [] OTHER -> b

----------------------------------------------------------------------------
(* main *)

\* a currency menu that falls back to Dollar for any other code
CurrencyOfWithDefault(currency_choose) ==
    CASE currency_choose = 2 -> "TurkishLira"
      [] currency_choose = 3 -> "Hbuck"
      [] OTHER -> "Dollar"

\* main: the currency menu
currency_of(currency_choose) ==
    CASE currency_choose = 1 -> "Dollar"
      [] currency_choose = 2 -> "TurkishLira"
      [] currency_choose = 3 -> "Hbuck"
      [] OTHER -> "panic"

\* main: the variants stored for Manyguppies and its first current variant
many_var ==
    <<PlainGuppies(1, 2), RainbowGuppies("Red", "Blue"), OddOrEvenGuppies(0, 0)>>

\* main: the variant menu
variant_of(variant_choice) ==
    CASE variant_choice = 1 -> PlainGuppies(1, 2)
      [] variant_choice = 2 -> RainbowGuppies("Indigo", "Yellow")
      [] variant_choice = 3 -> OddOrEvenGuppies(0, 0)
      [] variant_choice = 4 -> Manyguppies(many_var, many_var[1], 0)
      [] OTHER -> [kind |-> "panic"]

\* a loop test that also continues with no money left
LoopContinuesAtZero(m) == m >= 0

\* run_game: the loop test
LoopContinues(m) == m > 0

\* a bet test that refuses a bet of the whole balance
BetInvalidAtBalance(b, m) == b < 0 \/ b >= m

\* run_game: the bet re-prompt test
BetInvalid(b, m) == b < 0 \/ b > m

\* a quit test against the token as typed in upper case
IsQuitUpperCase(g) == g = "Q"

\* run_game: the quit test
IsQuit(g) == g = "q"

\* a final-message test that takes every balance up to 0 for broke
IsBrokeUpToZero(m) == m <= 0

\* run_game: the test that picks the final message
IsBroke(m) == m = 0

\* run_game: what is printed after the loop
FinalMessage(m) == IF IsBroke(m) THEN "broke" ELSE "made_it_out"

Init ==
    /\ pc = "main_currency"
    /\ overflow_checks \in BOOLEAN
    /\ currency = "none"
    /\ variant = NoVariant
    /\ money = 0
    /\ bet = 0
    /\ guess = ""
    /\ line = NoLine
    /\ out = <<"welcome">>
    /\ abort = ""
    /\ shown_first = NoReveal
    /\ result = ""
    /\ rounds = 0
    /\ player \in {"any", "all_in"}
    /\ random_source = "sampled"
    /\ calls = <<>>
    /\ basic = BasicOff

\* read_int_input: a line that is not an integer is refused and asked again
NotInteger ==
    /\ pc \in {"main_currency", "main_variant", "AWAIT_BET"}
    /\ \E l \in NotIntegerLines : line' = l
    /\ out' = <<"not_integer">>
    /\ basic' = IF pc = "AWAIT_BET"
                THEN BasicMain(basic, pc, line', 0, 0, overflow_checks)
                ELSE basic
    /\ UNCHANGED <<pc, overflow_checks, currency, variant, money, bet, guess,
                   abort, shown_first, result, rounds, player, random_source,
                   calls>>

\* main: the currency choice
ChooseCurrency ==
    /\ pc = "main_currency"
    /\ \E currency_choose \in CurrencyInputs :
        /\ line' = IntLine(currency_choose)
        /\ IF currency_of(currency_choose) = "panic"
           THEN /\ pc' = "ABORTED"
                /\ abort' = "InvalidNumber"
                /\ out' = <<>>
                /\ UNCHANGED currency
           ELSE /\ pc' = "main_variant"
                /\ currency' = currency_of(currency_choose)
                /\ out' = <<"choose_game_mode">>
                /\ UNCHANGED abort
    /\ UNCHANGED <<overflow_checks, variant, money, bet, guess, shown_first,
                   result, rounds, player, random_source, calls, basic>>

\* main: the variant choice, and run_game up to its first bet prompt
ChooseVariant ==
    /\ pc = "main_variant"
    /\ \E variant_choice \in VariantInputs :
        /\ line' = IntLine(variant_choice)
        /\ IF variant_of(variant_choice).kind = "panic"
           THEN /\ pc' = "ABORTED"
                /\ abort' = "InvalidNumber"
                /\ out' = <<>>
                /\ UNCHANGED <<variant, money>>
           ELSE /\ variant' = variant_of(variant_choice)
                /\ money' = starting_amount(currency)
                /\ IF LoopContinues(starting_amount(currency))
                   THEN pc' = "AWAIT_BET" /\ out' = <<"balance">>
                   ELSE pc' = "TERMINAL"
                        /\ out' = <<FinalMessage(starting_amount(currency))>>
                /\ UNCHANGED abort
    /\ UNCHANGED <<overflow_checks, currency, bet, guess, shown_first, result,
                   rounds, player, random_source, calls, basic>>

----------------------------------------------------------------------------
(* run_game *)

\* run_game: money += bet or money -= bet; the new money, or the panic of an
\* i32 overflow under overflow checks
settle(m, b, r, checks) ==
    IF r = "true"
    THEN IF checks /\ AddOverflows(m, b)
         THEN [money |-> m, panic |-> "I32AddOverflow"]
         ELSE [money |-> WrappingAdd(m, b), panic |-> ""]
    ELSE IF checks /\ SubOverflows(m, b)
         THEN [money |-> m, panic |-> "I32SubtractOverflow"]
         ELSE [money |-> WrappingSub(m, b), panic |-> ""]

\* run_game: an integer bet outside 0..money is held in bet, refused and
\* asked again
BetOutOfRange ==
    /\ pc = "AWAIT_BET"
    /\ \E x \in BetInputs(money, player) :
        /\ BetInvalid(x, money)
        /\ line' = IntLine(x)
        /\ bet' = x
    /\ out' = <<"invalid_bet">>
    /\ basic' = BasicMain(basic, pc, line', 0, 0, overflow_checks)
    /\ UNCHANGED <<pc, overflow_checks, currency, variant, money, guess,
                   abort, shown_first, result, rounds, player, random_source,
                   calls>>

\* run_game: a bet is taken, the variant generates and tells the first value
BetAccepted ==
    /\ pc = "AWAIT_BET"
    /\ rounds < RoundBudget(player)
    /\ \E x \in BetInputs(money, player) :
        /\ ~BetInvalid(x, money)
        /\ line' = IntLine(x)
        /\ bet' = x
    /\ \E v \in generate_new_random(variant) :
        /\ variant' = v
        /\ shown_first' = tell_random(v, "FirstGeneratedVal")
    /\ pc' = "ROUND_IN_PROGRESS"
    /\ out' = <<"first">>
    /\ rounds' = rounds + 1
    /\ calls' = bet_calls
    /\ basic' = BasicMain(basic, pc, line', shown_first'.value, 0, overflow_checks)
    /\ UNCHANGED <<overflow_checks, currency, money, guess, abort, result,
                   player, random_source>>

\* get_guess: a line outside the variant's tokens is refused and asked again
GuessInvalid ==
    /\ pc = "ROUND_IN_PROGRESS"
    /\ \E l \in GuessLines :
        /\ ~get_guess_accepts(variant, to_lowercase(l))
        /\ line' = TextLine(l)
    /\ out' = <<"invalid_guess">>
    /\ basic' = BasicMain(basic, pc, line', 0, 0, overflow_checks)
    /\ UNCHANGED <<pc, overflow_checks, currency, variant, money, bet, guess,
                   abort, shown_first, result, rounds, player, random_source,
                   calls>>

\* run_game: the player quits; the loop is left and the final message printed
GuessQuit ==
    /\ pc = "ROUND_IN_PROGRESS"
    /\ \E l \in GuessLines :
        /\ get_guess_accepts(variant, to_lowercase(l))
        /\ IsQuit(to_lowercase(l))
        /\ line' = TextLine(l)
        /\ guess' = to_lowercase(l)
    /\ pc' = "TERMINAL"
    /\ out' = <<FinalMessage(money)>>
    /\ calls' = calls \o quit_calls
    /\ basic' = BasicMain(basic, pc, line', 0, 0, overflow_checks)
    /\ UNCHANGED <<overflow_checks, currency, variant, money, bet, abort,
                   shown_first, result, rounds, player, random_source>>

\* run_game: a guess is taken; the variant generates again, tells the second
\* value and checks the guess
GuessScored ==
    /\ pc = "ROUND_IN_PROGRESS"
    /\ \E l \in GuessLines :
        /\ get_guess_accepts(variant, to_lowercase(l))
        /\ ~IsQuit(to_lowercase(l))
        /\ line' = TextLine(l)
        /\ guess' = to_lowercase(l)
        /\ \E v \in generate_new_random(variant) :
            /\ variant' = v
            /\ IF IsPanic(check_guess(v, to_lowercase(l), overflow_checks))
               THEN /\ pc' = "ABORTED"
                    /\ abort' = check_guess(v, to_lowercase(l), overflow_checks)
                    /\ UNCHANGED result
               ELSE /\ pc' = "SETTLE"
                    /\ result' = check_guess(v, to_lowercase(l), overflow_checks)
                    /\ UNCHANGED abort
    /\ out' = <<"second">>
    /\ calls' = calls \o score_calls
    /\ basic' = BasicMain(basic, pc, line', 0,
                          IF basic.pc = "off" THEN 0
                          ELSE SecondValue(Delegate(variant')),
                          overflow_checks)
    /\ UNCHANGED <<overflow_checks, currency, money, bet, shown_first, rounds,
                   player, random_source>>

\* run_game: the bet is added or removed, and the loop test decides between
\* the next iteration, whose locals are fresh, and the final message
Settle ==
    /\ pc = "SETTLE"
    /\ LET s == settle(money, bet, result, overflow_checks)
       IN  IF s.panic # ""
           THEN /\ pc' = "ABORTED"
                /\ abort' = s.panic
                /\ out' = <<>>
                /\ UNCHANGED <<money, bet, guess, result, shown_first, calls>>
           ELSE /\ money' = s.money
                /\ UNCHANGED abort
                /\ IF LoopContinues(s.money)
                   THEN /\ pc' = "AWAIT_BET"
                        /\ out' = <<result, "balance">>
                        /\ bet' = 0
                        /\ guess' = ""
                        /\ result' = ""
                        /\ shown_first' = NoReveal
                        /\ calls' = <<>>
                   ELSE /\ pc' = "TERMINAL"
                        /\ out' = <<result, FinalMessage(s.money)>>
                        /\ UNCHANGED <<bet, guess, result, shown_first, calls>>
    /\ UNCHANGED <<overflow_checks, currency, variant, line, rounds, player,
                   random_source, basic>>

Next ==
    \/ NotInteger
    \/ ChooseCurrency
    \/ ChooseVariant
    \/ BetOutOfRange
    \/ BetAccepted
    \/ GuessInvalid
    \/ GuessQuit
    \/ GuessScored
    \/ Settle

Spec == Init /\ [][Next]_vars

TypeOK ==
    /\ pc \in {"main_currency", "main_variant", "AWAIT_BET", "ROUND_IN_PROGRESS",
               "SETTLE", "TERMINAL", "ABORTED"}
    /\ money >= I32Min /\ money <= I32Max
    /\ rounds \in 0..RoundBudget(player)

----------------------------------------------------------------------------
(* Helpers of the properties *)

\* the last line printed by the last step
LastOut == IF Len(out) = 0 THEN "" ELSE out[Len(out)]

\* c = a + b over the integers, for i32 values a, b, c
ExactSum(a, b, c) == ~AddOverflows(a, b) /\ c = a + b

\* c = a - b over the integers, for i32 values a, b, c
ExactDifference(a, b, c) == ~SubOverflows(a, b) /\ c = a - b

\* the tokens check_guess of a simple variant has an arm for
ScoreTokens(kind) ==
    CASE kind = "PlainGuppies" -> {"h", "l", "s"}
      [] kind = "OddOrEvenGuppies" -> {"o", "e", "s"}
      [] kind = "RainbowGuppies" -> {"c", "f", "s"}
      [] OTHER -> {}

\* the panics that come out of check_guess
CheckGuessPanics == {"InvalidGuess", "UsizeSubtractOverflow", "UnwrapNone"}

----------------------------------------------------------------------------
(* The simplified game beside run_game *)

\* run_game and the simplified game start together
InitPair ==
    /\ pc = "main_currency"
    /\ overflow_checks \in BOOLEAN
    /\ currency = "none"
    /\ variant = NoVariant
    /\ money = 0
    /\ bet = 0
    /\ guess = ""
    /\ line = NoLine
    /\ out = <<"welcome">>
    /\ abort = ""
    /\ shown_first = NoReveal
    /\ result = ""
    /\ rounds = 0
    /\ player \in {"any", "all_in"}
    /\ random_source = "sampled"
    /\ calls = <<>>
    /\ basic = BasicStart

SpecPair == InitPair /\ [][Next]_vars

----------------------------------------------------------------------------
(* Single calls of generate_new_random and check_guess *)

\* every hue of the palette
Hues == {colors[i] : i \in 1..Len(colors)}

\* the objects of the three simple variants, over every value of the ranges
\* of their fields
UnitVariants ==
    {PlainGuppies(a, b) : a, b \in PlainLow..(PlainHigh - 1)}
        \cup {OddOrEvenGuppies(a, b) : a, b \in OddEvenLow..(OddEvenHigh - 1)}
        \cup {RainbowGuppies(a, b) : a, b \in Hues}

\* a variant as main builds it, about to generate, or a variant with any
\* values and a token of its own, about to check the guess
InitUnit ==
    /\ \/ pc = "unit_generate" /\ variant \in {variant_of(c) : c \in 1..3}
       \/ pc = "unit_check" /\ variant \in UnitVariants
    /\ guess \in ScoreTokens(variant.kind)
    /\ overflow_checks \in BOOLEAN
    /\ random_source = "exhaustive"
    /\ currency = "none"
    /\ money = 0
    /\ bet = 0
    /\ line = NoLine
    /\ out = <<>>
    /\ abort = ""
    /\ shown_first = NoReveal
    /\ result = ""
    /\ rounds = 0
    /\ player = "any"
    /\ calls = <<>>
    /\ basic = BasicOff

\* one call of generate_new_random
UnitGenerate ==
    /\ pc = "unit_generate"
    /\ variant' \in generate_new_random(variant)
    /\ pc' = "unit_check"
    /\ calls' = <<"generate_new_random">>
    /\ UNCHANGED <<overflow_checks, currency, money, bet, guess, line, out,
                   abort, shown_first, result, rounds, player, random_source,
                   basic>>

\* one call of check_guess
UnitCheckGuess ==
    /\ pc = "unit_check"
    /\ pc' = "unit_done"
    /\ IF IsPanic(check_guess(variant, guess, overflow_checks))
       THEN /\ abort' = check_guess(variant, guess, overflow_checks)
            /\ UNCHANGED result
       ELSE /\ result' = check_guess(variant, guess, overflow_checks)
            /\ UNCHANGED abort
    /\ calls' = calls \o <<"check_guess">>
    /\ UNCHANGED <<overflow_checks, currency, variant, money, bet, guess, line,
                   out, shown_first, rounds, player, random_source, basic>>

NextUnit ==
    \/ UnitGenerate
    \/ UnitCheckGuess

SpecUnit == InitUnit /\ [][NextUnit]_vars

----------------------------------------------------------------------------
(* Properties *)

\* C1: when the guess is scored, the first value check_guess compares
\* against is the first value that was told to the player before the guess.
C1_FirstValuePreserved ==
    pc = "SETTLE" =>
        /\ shown_first.kind = Delegate(variant).kind
        /\ shown_first.value = FirstValue(Delegate(variant))

\* C2: the token handed to check_guess is a token of the variant that scores
\* it, so check_guess never panics on an invalid guess.
C2_TokenAcceptedByScorer ==
    /\ abort # "InvalidGuess"
    /\ pc = "SETTLE" => guess \in ScoreTokens(Delegate(variant).kind)

\* C3: in a Manyguppies round the variant that told the first value and took
\* the guess is the variant that tells the second value and scores the guess.
C3_OneDelegatePerRound ==
    (variant.kind = "Manyguppies" /\ guess # "" /\ pc \in {"SETTLE", "ABORTED"}) =>
        shown_first.index = variant.variant_index

\* C4: the balance is never below 0.
C4_BalanceNeverNegative == money >= 0

\* C5: at the bet prompt a line is accepted as the bet iff it is an integer
\* X with 0 <= X <= balance; any other line is answered with a re-prompt and
\* changes neither the balance, the variant nor the position of the loop.
C5_BetAcceptance ==
    [][pc = "AWAIT_BET" =>
        LET inRange == line'.parsed = "Ok" /\ 0 <= line'.value /\ line'.value <= money
        IN  /\ inRange <=> pc' = "ROUND_IN_PROGRESS"
            /\ inRange => bet' = line'.value
            /\ ~inRange =>
                /\ pc' = "AWAIT_BET"
                /\ out' \in {<<"invalid_bet">>, <<"not_integer">>}
                /\ UNCHANGED <<money, variant, guess, result, shown_first,
                               rounds, abort, currency>>]_vars

\* a bet above the balance has been refused after a round was played
C5_Witness ==
    /\ pc = "AWAIT_BET"
    /\ rounds > 0
    /\ out = <<"invalid_bet">>
    /\ line.value > money

\* C6: a round that is settled adds the bet to the balance when the guess
\* was right and removes it when the guess was wrong, exactly and once.
C6_BalanceUpdate ==
    [][(pc = "SETTLE" /\ pc' # "ABORTED") =>
        /\ result = "true" => ExactSum(money, bet, money')
        /\ result = "false" => ExactDifference(money, bet, money')]_vars

\* C7: a quit goes straight to TERMINAL; the balance is the one the bet was
\* placed with, and the variant neither generates, tells the second value
\* nor scores.
C7_QuitFrame ==
    [][/\ (pc = "AWAIT_BET" /\ pc' = "ROUND_IN_PROGRESS") => money' = money
       /\ (pc = "ROUND_IN_PROGRESS" /\ to_lowercase(line'.text) = "q") =>
            /\ pc' = "TERMINAL"
            /\ guess' = "q"
            /\ "second" # LastOut'
            /\ UNCHANGED <<money, variant, result, shown_first, bet, abort>>]_vars

\* the player has quit a round with money at stake
C7_Witness ==
    /\ pc = "TERMINAL"
    /\ guess = "q"
    /\ bet > 0
    /\ money = starting_amount(currency)

\* C8: TERMINAL is entered only by a settled round that leaves a balance
\* <= 0 or by a quit; both always enter it, and a settled round that leaves
\* a balance > 0 returns to AWAIT_BET.
C8_Termination ==
    [][/\ (pc # "TERMINAL" /\ pc' = "TERMINAL") =>
            \/ pc = "SETTLE" /\ money' <= 0
            \/ pc = "ROUND_IN_PROGRESS" /\ guess' = "q"
       /\ (pc = "SETTLE" /\ pc' # "ABORTED" /\ money' <= 0) => pc' = "TERMINAL"
       /\ (pc = "SETTLE" /\ pc' # "ABORTED" /\ money' > 0) => pc' = "AWAIT_BET"
       /\ (pc = "ROUND_IN_PROGRESS" /\ to_lowercase(line'.text) = "q") =>
            pc' = "TERMINAL"]_vars

\* a lost round has ended the game with nothing left
C8_Witness ==
    /\ pc = "TERMINAL"
    /\ result = "false"
    /\ guess # "q"
    /\ money = 0
    /\ rounds > 1

\* C9: at TERMINAL "broke" is printed exactly when the balance is 0 and
\* "made it out" otherwise; a round lost with the whole balance at stake ends
\* with "broke", a quit with "made it out" and a balance above 0.
C9_FinalMessage ==
    [][/\ pc' = "TERMINAL" =>
            /\ LastOut' \in {"broke", "made_it_out"}
            /\ LastOut' = "broke" <=> money' = 0
            /\ guess' = "q" => (LastOut' = "made_it_out" /\ money' > 0)
       /\ (pc = "SETTLE" /\ result = "false" /\ bet = money) =>
            (pc' = "TERMINAL" /\ LastOut' = "broke")]_vars

\* a round was lost with the whole balance at stake
C9_Witness ==
    /\ pc = "TERMINAL"
    /\ out = <<"false", "broke">>
    /\ bet > 0
    /\ money = 0

\* C10: check_guess of PlainGuppies, OddOrEvenGuppies and RainbowGuppies
\* returns a boolean, without a panic, for every token of its own set and
\* every pair of values generate_new_random stores.
C10_CheckGuessTotal ==
    (variant.kind \in {"PlainGuppies", "OddOrEvenGuppies", "RainbowGuppies"}
        /\ guess \in ScoreTokens(variant.kind)) =>
            abort \notin CheckGuessPanics

\* |a - b|
AbsDifference(a, b) == IF a >= b THEN a - b ELSE b - a

\* the distance of a hue to Green: the absolute difference of their places
\* in the palette
DistanceToGreen(c) == AbsDifference(position(c), position("Green"))

\* n is odd
IsOdd(n) == \E k \in 0..n : n = 2 * k + 1

\* C11: for every pair of hues, RainbowGuppies::check_guess answers "c" with
\* true iff the second hue is nearer to Green than the first, "f" with true
\* iff it is farther, and "s" with true iff the hues are the same, the
\* distance being the absolute difference of the palette indexes.
C11_SpectrumRule ==
    (pc = "unit_done" /\ variant.kind = "RainbowGuppies") =>
        /\ abort = ""
        /\ guess = "c" =>
            (result = "true" <=>
                DistanceToGreen(variant.color_two) < DistanceToGreen(variant.color_one))
        /\ guess = "f" =>
            (result = "true" <=>
                DistanceToGreen(variant.color_two) > DistanceToGreen(variant.color_one))
        /\ guess = "s" =>
            (result = "true" <=> variant.color_two = variant.color_one)

\* C12: for every pair of values in 1..10, PlainGuppies::check_guess answers
\* "h" with true iff second > first, "l" iff second < first and "s" iff they
\* are equal, so exactly one of the three tokens wins.
C12_PlainRule ==
    (pc = "unit_done" /\ variant.kind = "PlainGuppies") =>
        /\ abort = ""
        /\ guess = "h" => (result = "true" <=> variant.value_two > variant.value_one)
        /\ guess = "l" => (result = "true" <=> variant.value_two < variant.value_one)
        /\ guess = "s" => (result = "true" <=> variant.value_two = variant.value_one)
        /\ BasicCheckGuess(variant.value_one, variant.value_two, guess) = result
        /\ Cardinality({t \in {"h", "l", "s"} :
                check_guess(variant, t, overflow_checks) = "true"}) = 1

\* "h" has won with first 3 and second 7
C12_Witness ==
    /\ pc = "unit_done"
    /\ variant = PlainGuppies(3, 7)
    /\ guess = "h"
    /\ result = "true"

\* C13: for every pair of numbers in 1..100, OddOrEvenGuppies::check_guess
\* answers "o" with true iff the second number is odd and "e" iff it is even,
\* whatever the first number, and "s" iff the numbers are equal.
C13_ParityRule ==
    (pc = "unit_done" /\ variant.kind = "OddOrEvenGuppies") =>
        /\ abort = ""
        /\ guess = "o" => (result = "true" <=> IsOdd(variant.num_two))
        /\ guess = "e" => (result = "true" <=> ~IsOdd(variant.num_two))
        /\ guess = "s" => (result = "true" <=> variant.num_two = variant.num_one)

\* "e" has won with an odd first number and second number 4
C13_Witness ==
    /\ pc = "unit_done"
    /\ variant = OddOrEvenGuppies(7, 4)
    /\ guess = "e"
    /\ result = "true"

\* the calls of one whole round, in the order of the claim
RoundOrder ==
    <<"generate_new_random", "tell_random_first", "get_guess",
      "generate_new_random", "tell_random_second", "check_guess">>

\* s is a prefix of t
IsPrefix(s, t) == Len(s) <= Len(t) /\ \A i \in 1..Len(s) : s[i] = t[i]

\* the line as typed, in lower case
Lowered(t) ==
    IF t \in {"H", "L", "S", "O", "E", "C", "F", "Q"}
    THEN CHOOSE u \in {"h", "l", "s", "o", "e", "c", "f", "q"} :
            <<t, u>> \in {<<"H", "h">>, <<"L", "l">>, <<"S", "s">>, <<"O", "o">>,
                          <<"E", "e">>, <<"C", "c">>, <<"F", "f">>, <<"Q", "q">>}
    ELSE t

\* the tokens the claim lists for each kind of variant
AcceptedTokens(kind) ==
    CASE kind = "PlainGuppies" -> {"h", "l", "s", "q"}
      [] kind = "OddOrEvenGuppies" -> {"o", "e", "s", "q"}
      [] kind = "RainbowGuppies" -> {"c", "f", "s", "q"}
      [] OTHER -> {}

\* C14: a currency code outside 1..3 or a variant code outside 1..4 aborts
\* main with no balance set and no round played; a valid pair of codes
\* enters the betting loop with the starting amount of the chosen currency
\* (100, 100000000 or 32199).
C14_Startup ==
    [][/\ (pc = "main_currency" /\ line'.parsed = "Ok") =>
            IF line'.value \in {1, 2, 3}
            THEN /\ pc' = "main_variant"
                 /\ abort' = ""
                 /\ currency' = CASE line'.value = 1 -> "Dollar"
                                  [] line'.value = 2 -> "TurkishLira"
                                  [] line'.value = 3 -> "Hbuck"
            ELSE /\ pc' = "ABORTED"
                 /\ abort' = "InvalidNumber"
                 /\ money' = 0 /\ rounds' = 0 /\ calls' = <<>>
       /\ (pc = "main_variant" /\ line'.parsed = "Ok") =>
            IF line'.value \in {1, 2, 3, 4}
            THEN /\ pc' = "AWAIT_BET"
                 /\ abort' = ""
                 /\ rounds' = 0
                 /\ money' = CASE currency = "Dollar" -> 100
                               [] currency = "TurkishLira" -> 100000000
                               [] currency = "Hbuck" -> 32199
            ELSE /\ pc' = "ABORTED"
                 /\ abort' = "InvalidNumber"
                 /\ money' = 0 /\ rounds' = 0 /\ calls' = <<>>
       /\ (pc \in {"main_currency", "main_variant"}) =>
            (money = 0 /\ rounds = 0 /\ calls = <<>>)
      ]_vars

\* main has aborted on the variant code after a valid currency code
C14_Witness ==
    /\ pc = "ABORTED"
    /\ abort = "InvalidNumber"
    /\ currency = "Hbuck"
    /\ money = 0
    /\ rounds = 0

\* C15: the calls of a round are a prefix of generate, tell first, get_guess,
\* generate, tell second, check_guess: nothing is told or checked before a
\* generate of the round, the second value is told only after the guess is
\* taken, and a quit ends the round right after get_guess.
C15_RoundOrder ==
    /\ IsPrefix(calls, RoundOrder)
    /\ \A i \in 1..Len(calls) :
        /\ calls[i] \in {"tell_random_first", "tell_random_second", "check_guess"} =>
            \E j \in 1..(i - 1) : calls[j] = "generate_new_random"
        /\ calls[i] = "tell_random_second" =>
            \E j \in 1..(i - 1) : calls[j] = "get_guess"
    /\ pc = "ROUND_IN_PROGRESS" => Len(calls) = 2
    /\ pc = "SETTLE" => calls = RoundOrder
    /\ (pc = "TERMINAL" /\ guess = "q") => Len(calls) = 3

\* a whole round has been played up to its check_guess
C15_Witness ==
    /\ pc = "SETTLE"
    /\ calls = RoundOrder
    /\ shown_first.which = "FirstGeneratedVal"

\* C16: get_guess hands the betting loop only the lower-case form of a token
\* of the variant's accepted set (q included), whatever the case it was typed
\* in; any other line is asked again and changes neither the balance nor the
\* stored values of the round.
C16_GetGuess ==
    [][pc = "ROUND_IN_PROGRESS" =>
        IF Lowered(line'.text) \in AcceptedTokens(Delegate(variant).kind)
        THEN /\ guess' = Lowered(line'.text)
             /\ pc' # "ROUND_IN_PROGRESS"
             /\ money' = money
        ELSE UNCHANGED <<pc, money, bet, guess, variant, shown_first, result,
                         rounds, calls, abort>>
      ]_vars

\* "H" was typed and the guess scored is "h"
C16_Witness ==
    /\ pc = "SETTLE"
    /\ line = TextLine("H")
    /\ guess = "h"
    /\ Delegate(variant).kind = "PlainGuppies"

\* C17: RainbowGuppies::generate_new_random draws the first and the second
\* hue independently, so each of the 49 ordered pairs of hues is a state the
\* variant may be in after generate.
C17_AllPairsGenerated ==
    (pc = "unit_generate" /\ variant.kind = "RainbowGuppies") =>
        \A a \in Hues, b \in Hues :
            RainbowGuppies(a, b) \in generate_new_random(variant)

C19_NoOverflow ==
    /\ abort \notin {"I32AddOverflow", "I32SubtractOverflow"}
    /\ (pc = "SETTLE" /\ result = "true") => ~AddOverflows(money, bet)

\* C20: run_game with Dollar and PlainGuppies and the simplified game, fed
\* the same lines and shown the same first and second numbers, agree on the
\* result of every round, on the balance after every round and on the final
\* message.
C20_SameAsBasic ==
    basic.pc # "off" =>
        /\ basic.pc # "out_of_step"
        /\ pc = "SETTLE" => basic.result = result
        /\ pc \in {"AWAIT_BET", "TERMINAL"} => basic.money = money
        /\ pc \in {"AWAIT_BET", "ROUND_IN_PROGRESS", "TERMINAL", "ABORTED"} =>
            basic.pc = pc
        /\ pc = "TERMINAL" =>
            basic.out[Len(basic.out)] = LastOut

====
